---- MODULE Spec2Model ----
(***************************************************************************)
(* rustsh: the command-line tokenizer (src/tokenizer.rs) and the parser    *)
(* that folds its tokens into a command_line (src/parser.rs).              *)
(*                                                                         *)
(* A str and a [char] are both modelled as a sequence of one-character     *)
(* strings.  Offsets are 0-based as in the source: c[offset] of the source *)
(* is c[offset + 1] here.  A failed assert, a fail() and an out-of-range   *)
(* index abort the task; an aborted call yields a value of kind "fail".    *)
(*                                                                         *)
(* A loop of the source is a RECURSIVE operator over the loop's locals.    *)
(* Where an iteration's result feeds the next one it is bound as           *)
(* CHOOSE r \in {F(x) : x \in {step}} : TRUE, which is F(step) with step   *)
(* evaluated once.                                                         *)
(***************************************************************************)
EXTENDS Integers, Sequences, FiniteSets, TLC

VARIABLES
    c,        \* tokenize: the characters of cmd_line
    offset,   \* tokenize: the scan cursor
    tokens,   \* tokenize: the tokens produced so far
    tpc,      \* tokenize: "start", "loop", "done", "aborted" ("idle": not running)
    ptokens,  \* parse: the token vector handed to parse
    idx,      \* parse_tokens: the shared by-reference scan index
    stack,    \* parse_tokens: one activation [parts, cur] per nesting level
    fold,     \* finish_parse: its locals while it runs
    result,   \* parse: the parse_result returned
    pc,       \* parse: "entry", "scan", "finish", "done" ("idle": not running)
    mc,       \* make_command: its argument and locals while it runs
    line1,    \* interactive caller: the first raw line
    line2,    \* interactive caller: the line read after continuation_required
    cpc,      \* interactive caller: its position ("idle": not running)
    cres      \* interactive caller: the parse_result of each parse call

vars == <<c, offset, tokens, tpc, ptokens, idx, stack, fold, result, pc, mc,
          line1, line2, cpc, cres>>

tokVars == <<c, offset, tokens, tpc>>
parseVars == <<ptokens, idx, stack, fold, result, pc>>
callerVars == <<line1, line2, cpc, cres>>

(***************************************************************************)
(* Bounds of the checked inputs.                                           *)
(***************************************************************************)
MaxLen == 4        \* characters of a tokenized line
MaxTokens == 4     \* tokens handed to parse
MaxFoldTokens == 5 \* tokens handed to parse, words and operators only
MaxCmdTokens == 5  \* tokens handed to make_command
MaxLine == 3       \* characters of a raw line typed to the interactive caller
MaxQuoteLen == 6   \* characters of a tokenized line of words and quotes
MaxTwoLen == 6     \* characters of a tokenized line of 2> redirections
MaxSubshellTokens == 5 \* tokens before, inside and after one subshell

SeqsUpTo(S, n) == UNION {[1..k -> S] : k \in 0..n}

(***************************************************************************)
(* Tokens (src/tokenizer.rs, enum token).                                  *)
(***************************************************************************)
string(s) == [kind |-> "string", s |-> s]
redirect_output(s) == [kind |-> "redirect_output", s |-> s]
redirect_error(s) == [kind |-> "redirect_error", s |-> s]
redirect_input(s) == [kind |-> "redirect_input", s |-> s]
redirect_error_to_output == [kind |-> "redirect_error_to_output"]
pipe == [kind |-> "pipe"]
and == [kind |-> "and"]
or == [kind |-> "or"]
background == [kind |-> "background"]
sequence == [kind |-> "sequence"]
open_subshell == [kind |-> "open_subshell"]
close_subshell == [kind |-> "close_subshell"]
continuation == [kind |-> "continuation"]
error(msg) == [kind |-> "error", msg |-> msg]

\* An aborted task: a failed assert, fail(), or an index out of range.
Abort(msg) == [kind |-> "fail", msg |-> msg]

consumption(t, off) == [t |-> t, offset |-> off]

\* vec::slice(c, from, to), 0-based and half-open.
slice(v, from, to) == SubSeq(v, from + 1, to)

\* str::is_whitespace(str::from_char(ch))
is_whitespace(ch) == ch \in {" ", "\t"}

(***************************************************************************)
(* The tokenizer's functions.                                              *)
(***************************************************************************)
make_string_consumption(v, off, end) ==
    IF off > end \/ end > Len(v)
    THEN consumption(Abort("vec::slice out of range"), end)
    ELSE consumption(string(slice(v, off, end)), end)

\* Mutant: every backslash ends a word, not only the last character.
is_token_separator_any_backslash(v, off) ==
    IF is_whitespace(v[off + 1]) THEN TRUE
    ELSE v[off + 1] \in {"<", ">", ";", "&", "|", "(", ")", "\\"}

is_token_separator(v, off) ==
    IF is_whitespace(v[off + 1]) THEN TRUE
    ELSE CASE v[off + 1] \in {"<", ">", ";", "&", "|", "(", ")"} -> TRUE
           [] v[off + 1] = "\\" -> (off + 1 = Len(v))
           [] OTHER -> FALSE

RECURSIVE whitespace_end(_, _)
whitespace_end(v, end) ==
    IF end < Len(v) /\ is_whitespace(v[end + 1])
    THEN whitespace_end(v, end + 1)
    ELSE end

consume_whitespace(v, off) ==
    make_string_consumption(v, off, whitespace_end(v, off))

consume_or(v, off) ==
    IF Len(v) < off + 2 \/ v[off + 1] # "|" \/ v[off + 2] # "|"
    THEN consumption(Abort("Tried to consume ||"), off)
    ELSE consumption(or, off + 2)

consume_pipe(v, off) ==
    IF off >= Len(v) \/ v[off + 1] # "|"
    THEN consumption(Abort("assert c[offset] == '|'"), off)
    ELSE consumption(pipe, off + 1)

consume_pipechar(v, off) ==
    IF off >= Len(v) \/ v[off + 1] # "|"
    THEN consumption(Abort("assert c[offset] == '|'"), off)
    ELSE IF off + 1 < Len(v) /\ v[off + 2] = "|"
         THEN consume_or(v, off)
         ELSE consume_pipe(v, off)

consume_and(v, off) ==
    IF Len(v) < off + 2 \/ v[off + 1] # "&" \/ v[off + 2] # "&"
    THEN consumption(Abort("Tried to consume &&"), off)
    ELSE consumption(and, off + 2)

consume_background(v, off) ==
    IF off >= Len(v) \/ v[off + 1] # "&"
    THEN consumption(Abort("assert c[offset] == '&'"), off)
    ELSE consumption(background, off + 1)

consume_ampersand(v, off) ==
    IF off >= Len(v) \/ v[off + 1] # "&"
    THEN consumption(Abort("assert c[offset] == '&'"), off)
    ELSE IF off + 1 < Len(v) /\ v[off + 2] = "&"
         THEN consume_and(v, off)
         ELSE consume_background(v, off)

consume_sequence(v, off) ==
    IF off >= Len(v) \/ v[off + 1] # ";"
    THEN consumption(Abort("assert c[offset] == ';'"), off)
    ELSE consumption(sequence, off + 1)

consume_open_subshell(v, off) ==
    IF off >= Len(v) \/ v[off + 1] # "("
    THEN consumption(Abort("assert c[offset] == '('"), off)
    ELSE consumption(open_subshell, off + 1)

consume_close_subshell(v, off) ==
    IF off >= Len(v) \/ v[off + 1] # ")"
    THEN consumption(Abort("assert c[offset] == ')'"), off)
    ELSE consumption(close_subshell, off + 1)

RECURSIVE singleq_end(_, _)
singleq_end(v, end) ==
    IF end < Len(v) /\ v[end + 1] # "'"
    THEN singleq_end(v, end + 1)
    ELSE end

consume_singleq(v, off) ==
    IF off >= Len(v) \/ v[off + 1] # "'"
    THEN consumption(Abort("assert c[offset] == '\\''"), off)
    ELSE LET end == singleq_end(v, off + 1)
         IN  IF end = Len(v)
             THEN consumption(error("Missing '."), end)
             ELSE LET t == make_string_consumption(v, off + 1, end)
                  IN  consumption(t.t, t.offset + 1)

\* Mutant: a backslash escapes whatever follows it and is itself dropped.
RECURSIVE doubleq_loop_drop_backslash(_, _, _)
doubleq_loop_drop_backslash(v, s, end) ==
    IF end < Len(v) /\ v[end + 1] # "\""
    THEN IF v[end + 1] = "\\" /\ end + 1 # Len(v)
         THEN doubleq_loop_drop_backslash(v, Append(s, v[end + 2]), end + 2)
         ELSE doubleq_loop_drop_backslash(v, Append(s, v[end + 1]), end + 1)
    ELSE [s |-> s, end |-> end]

\* The while loop of consume_doubleq: the locals [s, end] when it exits.
RECURSIVE doubleq_loop(_, _, _)
doubleq_loop(v, s, end) ==
    IF end < Len(v) /\ v[end + 1] # "\""
    THEN IF v[end + 1] = "\\" /\ end + 1 # Len(v)
         THEN CASE v[end + 2] = "\"" -> doubleq_loop(v, Append(s, "\""), end + 2)
                [] v[end + 2] = "\\" -> doubleq_loop(v, Append(s, "\\"), end + 2)
                [] OTHER -> doubleq_loop(v, s \o <<"\\", v[end + 2]>>, end + 2)
         ELSE doubleq_loop(v, Append(s, v[end + 1]), end + 1)
    ELSE [s |-> s, end |-> end]

consume_doubleq(v, off) ==
    IF off >= Len(v) \/ v[off + 1] # "\""
    THEN consumption(Abort("assert c[offset] == '\"'"), off)
    ELSE LET l == doubleq_loop(v, <<>>, off + 1)
         IN  IF l.end = Len(v)
             THEN consumption(error("Missing \"."), l.end)
             ELSE consumption(string(l.s), l.end + 1)

\* The while loop of consume_string, from its locals s and end.
RECURSIVE string_loop(_, _, _)
string_loop(v, s, end) ==
    IF end < Len(v)
    THEN IF is_token_separator(v, end)
         THEN consumption(string(s), end)
         ELSE CASE v[end + 1] = "\"" ->
                     LET r == consume_doubleq(v, end)
                     IN  CASE r.t.kind = "string" -> string_loop(v, s \o r.t.s, r.offset)
                           [] r.t.kind = "error" -> r
                           [] OTHER -> consumption(
                                  Abort("consume_doubleq returned an unexpected type."),
                                  r.offset)
                [] v[end + 1] = "'" ->
                     LET r == consume_singleq(v, end)
                     IN  CASE r.t.kind = "string" -> string_loop(v, s \o r.t.s, r.offset)
                           [] r.t.kind = "error" -> r
                           [] OTHER -> consumption(
                                  Abort("consume_doubleq returned an unexpected type."),
                                  r.offset)
                [] OTHER -> string_loop(v, Append(s, v[end + 1]), end + 1)
    ELSE consumption(string(s), end)

consume_string(v, off) == string_loop(v, <<>>, off)

consume_redirect_error(v, off) ==
    IF off >= Len(v) \/ v[off + 1] # "2"
    THEN consumption(Abort("assert c[offset] == '2'"), off)
    ELSE IF off + 1 >= Len(v) \/ v[off + 2] # ">"
    THEN consumption(Abort("assert c[offset + 1u] == '>'"), off)
    ELSE LET ws == consume_whitespace(v, off + 2)
         IN  IF ws.t.kind = "fail" THEN ws
             ELSE LET r == consume_string(v, ws.offset)
                  IN  IF r.t.kind = "string"
                      THEN IF Len(r.t.s) > 0
                           THEN consumption(redirect_error(r.t.s), r.offset)
                           ELSE consumption(error("No error file specified."), Len(v))
                      ELSE consumption(error("Could not parse file name for error redirection."), Len(v))

\* Mutant: 2>&1 is taken whatever follows it.
consume_two_no_separator_check(v, off) ==
    IF off >= Len(v) \/ v[off + 1] # "2"
    THEN consumption(Abort("assert c[offset] == '2'"), off)
    ELSE IF /\ off + 3 < Len(v)
            /\ v[off + 2] = ">"
            /\ v[off + 3] = "&"
            /\ v[off + 4] = "1"
    THEN consumption(redirect_error_to_output, off + 4)
    ELSE IF off + 1 < Len(v) /\ v[off + 2] = ">"
    THEN consume_redirect_error(v, off)
    ELSE consume_string(v, off)

consume_two(v, off) ==
    IF off >= Len(v) \/ v[off + 1] # "2"
    THEN consumption(Abort("assert c[offset] == '2'"), off)
    ELSE IF /\ off + 3 < Len(v)
            /\ v[off + 2] = ">"
            /\ v[off + 3] = "&"
            /\ v[off + 4] = "1"
            /\ (off + 4 = Len(v) \/ is_token_separator(v, off + 4))
    THEN consumption(redirect_error_to_output, off + 4)
    ELSE IF off + 1 < Len(v) /\ v[off + 2] = ">"
    THEN consume_redirect_error(v, off)
    ELSE consume_string(v, off)

\* Mutant: after an empty target the scan resumes where the target was sought.
consume_redirect_output_resume(v, off) ==
    IF off >= Len(v) \/ v[off + 1] # ">"
    THEN consumption(Abort("assert c[offset] == '>'"), off)
    ELSE LET ws == consume_whitespace(v, off + 1)
         IN  IF ws.t.kind = "fail" THEN ws
             ELSE LET r == consume_string(v, ws.offset)
                  IN  IF r.t.kind = "string"
                      THEN IF Len(r.t.s) > 0
                           THEN consumption(redirect_output(r.t.s), r.offset)
                           ELSE consumption(error("No output file specified."), r.offset)
                      ELSE consumption(error("Could not parse file name for output redirection."), Len(v))

consume_redirect_output(v, off) ==
    IF off >= Len(v) \/ v[off + 1] # ">"
    THEN consumption(Abort("assert c[offset] == '>'"), off)
    ELSE LET ws == consume_whitespace(v, off + 1)
         IN  IF ws.t.kind = "fail" THEN ws
             ELSE LET r == consume_string(v, ws.offset)
                  IN  IF r.t.kind = "string"
                      THEN IF Len(r.t.s) > 0
                           THEN consumption(redirect_output(r.t.s), r.offset)
                           ELSE consumption(error("No output file specified."), Len(v))
                      ELSE consumption(error("Could not parse file name for output redirection."), Len(v))

\* Mutant: the lexical error of the target word is passed on as it is.
consume_redirect_input_quote_error(v, off) ==
    IF off >= Len(v) \/ v[off + 1] # "<"
    THEN consumption(Abort("assert c[offset] == '<'"), off)
    ELSE LET ws == consume_whitespace(v, off + 1)
         IN  IF ws.t.kind = "fail" THEN ws
             ELSE LET r == consume_string(v, ws.offset)
                  IN  IF r.t.kind = "string"
                      THEN IF Len(r.t.s) > 0
                           THEN consumption(redirect_input(r.t.s), r.offset)
                           ELSE consumption(error("No input file specified."), Len(v))
                      ELSE r

consume_redirect_input(v, off) ==
    IF off >= Len(v) \/ v[off + 1] # "<"
    THEN consumption(Abort("assert c[offset] == '<'"), off)
    ELSE LET ws == consume_whitespace(v, off + 1)
         IN  IF ws.t.kind = "fail" THEN ws
             ELSE LET r == consume_string(v, ws.offset)
                  IN  IF r.t.kind = "string"
                      THEN IF Len(r.t.s) > 0
                           THEN consumption(redirect_input(r.t.s), r.offset)
                           ELSE consumption(error("No input file specified."), Len(v))
                      ELSE consumption(error("Could not parse file name for input redirection."), Len(v))

\* Mutant: a backslash at a token start is a continuation wherever it stands.
token_at_backslash_continuation(v, off) ==
    CASE v[off + 1] = "|" -> consume_pipechar(v, off)
      [] v[off + 1] = ">" -> consume_redirect_output(v, off)
      [] v[off + 1] = "<" -> consume_redirect_input(v, off)
      [] v[off + 1] = "&" -> consume_ampersand(v, off)
      [] v[off + 1] = "2" -> consume_two(v, off)
      [] v[off + 1] = ";" -> consume_sequence(v, off)
      [] v[off + 1] = "(" -> consume_open_subshell(v, off)
      [] v[off + 1] = ")" -> consume_close_subshell(v, off)
      [] v[off + 1] = "\\" -> consumption(continuation, off + 1)
      [] OTHER -> consume_string(v, off)

\* The alt of consume_token: the token at offset, before the trailing
\* whitespace is consumed.
token_at(v, off) ==
    CASE v[off + 1] = "|" -> consume_pipechar(v, off)
      [] v[off + 1] = ">" -> consume_redirect_output(v, off)
      [] v[off + 1] = "<" -> consume_redirect_input(v, off)
      [] v[off + 1] = "&" -> consume_ampersand(v, off)
      [] v[off + 1] = "2" -> consume_two(v, off)
      [] v[off + 1] = ";" -> consume_sequence(v, off)
      [] v[off + 1] = "(" -> consume_open_subshell(v, off)
      [] v[off + 1] = ")" -> consume_close_subshell(v, off)
      [] v[off + 1] = "\\" -> IF off + 1 < Len(v)
                              THEN consume_string(v, off)
                              ELSE consumption(continuation, off + 1)
      [] OTHER -> consume_string(v, off)

consume_token(v, off) ==
    IF off >= Len(v)
    THEN consumption(Abort("index out of range: c[offset]"), off)
    ELSE LET t == token_at(v, off)
         IN  IF t.t.kind = "fail" THEN t
             ELSE LET ws == consume_whitespace(v, t.offset)
                  IN  IF ws.t.kind = "fail" THEN ws
                      ELSE consumption(t.t, ws.offset)

\* The while loop of tokenize from (offset, tokens); an aborted run is the
\* tokens so far followed by the "fail" value.
RECURSIVE tokenize_loop(_, _, _)
tokenize_loop(v, off, ts) ==
    IF off # Len(v)
    THEN CHOOSE r \in {IF t.t.kind = "fail" THEN Append(ts, t.t)
                        ELSE tokenize_loop(v, t.offset, Append(ts, t.t)) :
                        t \in {consume_token(v, off)}} : TRUE
    ELSE ts

tokenize(v) == tokenize_loop(v, consume_whitespace(v, 0).offset, <<>>)

(***************************************************************************)
(* The parser's types (src/parser.rs).  The command_line variants that     *)
(* share a name with a token carry the prefix cl_.                         *)
(***************************************************************************)
stdin == [kind |-> "stdin"]
stdout == [kind |-> "stdout"]
stderr == [kind |-> "stderr"]
outfile(s) == [kind |-> "outfile", s |-> s]
infile(s) == [kind |-> "infile", s |-> s]

command(args, i, o, e) == [args |-> args, input |-> i, output |-> o, error |-> e]

singleton(cmd_) == [kind |-> "singleton", cmd |-> cmd_]
pipeline(args) == [kind |-> "pipeline", args |-> args]
cl_sequence(args) == [kind |-> "sequence", args |-> args]
cl_background(cl) == [kind |-> "background", cl |-> cl]
cl_and(args) == [kind |-> "and", args |-> args]
cl_or(args) == [kind |-> "or", args |-> args]

parsed(cl) == [kind |-> "parsed", cl |-> cl]
continuation_required == [kind |-> "continuation_required"]

left(cmd_) == [kind |-> "left", c |-> cmd_]
right(e) == [kind |-> "right", e |-> e]

cmd(cmd_) == [kind |-> "cmd", c |-> cmd_]
subshell(cl) == [kind |-> "subshell", cl |-> cl]
sep(t) == [kind |-> "sep", t |-> t]

\* tokenizer::token_to_string is imported by parser.rs; its text is not part
\* of the sources.  Only the token's kind is rendered.
token_to_string(t) == t.kind

(***************************************************************************)
(* make_command: the for loop over its tokens, one token per step.  m is   *)
(* [tokens, k, args, i, o, e, ret]: k tokens are done, ret is the value    *)
(* returned once it has returned (<<>> before).                            *)
(***************************************************************************)
mc_enter(ts) ==
    [tokens |-> ts, k |-> 0, args |-> <<>>, i |-> stdin, o |-> stdout,
     e |-> stderr,
     ret |-> IF ts = <<>> THEN Abort("assert vec::is_not_empty(tokens)") ELSE <<>>]

mc_string(m, t) == [m EXCEPT !.args = Append(@, t.s), !.k = @ + 1]

\* Mutant: an error aliased to stdout follows a later output redirection.
mc_redirect_output_live(m, t) ==
    IF m.o # stdout
    THEN [m EXCEPT !.ret = right("Multiple output redirects.")]
    ELSE [m EXCEPT !.o = outfile(t.s),
                   !.e = IF m.e = stdout THEN outfile(t.s) ELSE m.e,
                   !.k = @ + 1]

mc_redirect_output(m, t) ==
    IF m.o # stdout
    THEN [m EXCEPT !.ret = right("Multiple output redirects.")]
    ELSE [m EXCEPT !.o = outfile(t.s), !.k = @ + 1]

\* Mutant: a second error redirection overwrites the first.
mc_redirect_error_overwrite(m, t) == [m EXCEPT !.e = outfile(t.s), !.k = @ + 1]

mc_redirect_error(m, t) ==
    IF m.e # stderr
    THEN [m EXCEPT !.ret = right("Multiple error redirects.")]
    ELSE [m EXCEPT !.e = outfile(t.s), !.k = @ + 1]

mc_redirect_error_to_output(m, t) ==
    IF m.e # stderr
    THEN [m EXCEPT !.ret = right("Multiple error redirects.")]
    ELSE [m EXCEPT !.e = m.o, !.k = @ + 1]

mc_redirect_input(m, t) ==
    IF m.i # stdin
    THEN [m EXCEPT !.ret = right("Multiple input redirects.")]
    ELSE [m EXCEPT !.i = infile(t.s), !.k = @ + 1]

mc_unexpected(m, t) ==
    [m EXCEPT !.ret = right("Unexpected token: " \o token_to_string(t))]

mc_return(m) == [m EXCEPT !.ret = left(command(m.args, m.i, m.o, m.e))]

mc_step(m) ==
    IF m.k < Len(m.tokens)
    THEN LET t == m.tokens[m.k + 1]
         IN  CASE t.kind = "string" -> mc_string(m, t)
               [] t.kind = "redirect_output" -> mc_redirect_output(m, t)
               [] t.kind = "redirect_error" -> mc_redirect_error(m, t)
               [] t.kind = "redirect_error_to_output" -> mc_redirect_error_to_output(m, t)
               [] t.kind = "redirect_input" -> mc_redirect_input(m, t)
               [] OTHER -> mc_unexpected(m, t)
    ELSE mc_return(m)

RECURSIVE mc_run(_)
mc_run(m) ==
    IF m.ret # <<>> THEN m.ret
    ELSE CHOOSE r \in {mc_run(n) : n \in {mc_step(m)}} : TRUE

make_command(ts) == mc_run(mc_enter(ts))

(***************************************************************************)
(* part_to_cl, append_to_cl and the folding loop of finish_parse.          *)
(***************************************************************************)
\* Mutant: a subshell is a node of its own around what it holds.
part_to_cl_subshell_node(p) ==
    CASE p.kind = "cmd" -> singleton(p.c)
      [] p.kind = "subshell" -> cl_sequence(<<p.cl>>)
      [] OTHER -> Abort("part_to_cl doesn't convert separators.")

part_to_cl(p) ==
    CASE p.kind = "cmd" -> singleton(p.c)
      [] p.kind = "subshell" -> p.cl
      [] OTHER -> Abort("part_to_cl doesn't convert separators.")

\* Mutant: a part is paired with the node built so far instead of joining
\* its children.
append_to_cl_nested(cl, p) ==
    LET n == part_to_cl(p)
    IN  IF n.kind = "fail" THEN n
        ELSE CASE cl.kind = "singleton" -> Abort("cl may not be singleton.")
               [] cl.kind = "pipeline" ->
                      IF Len(cl.args) < 2 THEN pipeline(Append(cl.args, n))
                      ELSE pipeline(<<cl, n>>)
               [] cl.kind = "sequence" ->
                      IF Len(cl.args) < 2 THEN cl_sequence(Append(cl.args, n))
                      ELSE cl_sequence(<<cl, n>>)
               [] cl.kind = "background" -> cl_sequence(<<cl, n>>)
               [] cl.kind = "and" ->
                      IF Len(cl.args) < 2 THEN cl_and(Append(cl.args, n))
                      ELSE cl_and(<<cl, n>>)
               [] cl.kind = "or" ->
                      IF Len(cl.args) < 2 THEN cl_or(Append(cl.args, n))
                      ELSE cl_or(<<cl, n>>)

\* Mutant: a part that follows a background separator joins the background
\* node.
append_to_cl_into_background(cl, p) ==
    LET n == part_to_cl(p)
    IN  IF n.kind = "fail" THEN n
        ELSE CASE cl.kind = "singleton" -> Abort("cl may not be singleton.")
               [] cl.kind = "pipeline" -> pipeline(Append(cl.args, n))
               [] cl.kind = "sequence" -> cl_sequence(Append(cl.args, n))
               [] cl.kind = "background" -> cl_background(cl_sequence(<<cl.cl, n>>))
               [] cl.kind = "and" -> cl_and(Append(cl.args, n))
               [] cl.kind = "or" -> cl_or(Append(cl.args, n))

\* The new value of cl, or the "fail" value when the task aborts.
append_to_cl(cl, p) ==
    LET n == part_to_cl(p)
    IN  IF n.kind = "fail" THEN n
        ELSE CASE cl.kind = "singleton" -> Abort("cl may not be singleton.")
               [] cl.kind = "pipeline" -> pipeline(Append(cl.args, n))
               [] cl.kind = "sequence" -> cl_sequence(Append(cl.args, n))
               [] cl.kind = "background" -> cl_sequence(<<cl, n>>)
               [] cl.kind = "and" -> cl_and(Append(cl.args, n))
               [] cl.kind = "or" -> cl_or(Append(cl.args, n))

\* Mutant: a pipe binds tighter than the node built so far and wraps only its
\* last child.
fold_separator_precedence(cur_cl, t) ==
    CASE t.kind = "pipe" ->
           IF cur_cl.kind = "pipeline" THEN cur_cl
           ELSE IF cur_cl.kind \in {"and", "or", "sequence"}
           THEN [cur_cl EXCEPT !.args[Len(cur_cl.args)] = pipeline(<<@>>)]
           ELSE pipeline(<<cur_cl>>)
      [] t.kind = "and" ->
           IF cur_cl.kind = "and" THEN cur_cl ELSE cl_and(<<cur_cl>>)
      [] t.kind = "or" ->
           IF cur_cl.kind = "or" THEN cur_cl ELSE cl_or(<<cur_cl>>)
      [] t.kind = "background" -> cl_background(cur_cl)
      [] t.kind = "sequence" ->
           IF cur_cl.kind = "sequence" THEN cur_cl ELSE cl_sequence(<<cur_cl>>)
      [] OTHER -> Abort("Unexpected partial parse.")

\* Mutant: a sequence separator leaves the running node as it is.
fold_separator_sequence_kept(cur_cl, t) ==
    CASE t.kind = "pipe" ->
           IF cur_cl.kind = "pipeline" THEN cur_cl ELSE pipeline(<<cur_cl>>)
      [] t.kind = "and" ->
           IF cur_cl.kind = "and" THEN cur_cl ELSE cl_and(<<cur_cl>>)
      [] t.kind = "or" ->
           IF cur_cl.kind = "or" THEN cur_cl ELSE cl_or(<<cur_cl>>)
      [] t.kind = "background" -> cl_background(cur_cl)
      [] t.kind = "sequence" -> cur_cl
      [] OTHER -> Abort("Unexpected partial parse.")

\* The alt t of finish_parse's sep arm: the new cur_cl.
fold_separator(cur_cl, t) ==
    CASE t.kind = "pipe" ->
           IF cur_cl.kind = "pipeline" THEN cur_cl ELSE pipeline(<<cur_cl>>)
      [] t.kind = "and" ->
           IF cur_cl.kind = "and" THEN cur_cl ELSE cl_and(<<cur_cl>>)
      [] t.kind = "or" ->
           IF cur_cl.kind = "or" THEN cur_cl ELSE cl_or(<<cur_cl>>)
      [] t.kind = "background" -> cl_background(cur_cl)
      [] t.kind = "sequence" ->
           IF cur_cl.kind = "sequence" THEN cur_cl ELSE cl_sequence(<<cur_cl>>)
      [] OTHER -> Abort("Unexpected partial parse.")

\* finish_parse up to its while loop: f is [parts, idx, cur_cl,
\* cmd_required, cmd_allowed, ret]; ret is the parse_result once returned.
fp_locals(parts, i, cl, req, allowed, ret) ==
    [parts |-> parts, idx |-> i, cur_cl |-> cl, cmd_required |-> req,
     cmd_allowed |-> allowed, ret |-> ret]

\* Mutant: an empty list of parts is an empty sequence, as an empty input is.
finish_enter_empty_sequence(parts) ==
    IF parts = <<>>
    THEN fp_locals(parts, 0, <<>>, FALSE, FALSE, parsed(cl_sequence(<<>>)))
    ELSE IF parts[1].kind = "sep"
    THEN fp_locals(parts, 0, <<>>, FALSE, FALSE, error("No initial command."))
    ELSE IF Len(parts) = 1
    THEN fp_locals(parts, 0, part_to_cl(parts[1]), FALSE, FALSE,
                   parsed(part_to_cl(parts[1])))
    ELSE fp_locals(parts, 1, part_to_cl(parts[1]), FALSE, FALSE, <<>>)

finish_enter(parts) ==
    IF parts = <<>>
    THEN fp_locals(parts, 0, <<>>, FALSE, FALSE, Abort("assert vec::is_not_empty(parts)"))
    ELSE IF parts[1].kind = "sep"
    THEN fp_locals(parts, 0, <<>>, FALSE, FALSE, error("No initial command."))
    ELSE IF Len(parts) = 1
    THEN fp_locals(parts, 0, part_to_cl(parts[1]), FALSE, FALSE,
                   parsed(part_to_cl(parts[1])))
    ELSE fp_locals(parts, 1, part_to_cl(parts[1]), FALSE, FALSE, <<>>)

\* One iteration of the while loop on a cmd or subshell part.
fold_part(f) ==
    IF ~f.cmd_allowed
    THEN [f EXCEPT !.ret = error("Found a command where a separator was expected.")]
    ELSE LET n == append_to_cl(f.cur_cl, f.parts[f.idx + 1])
         IN  IF n.kind = "fail"
             THEN [f EXCEPT !.cmd_required = FALSE, !.cmd_allowed = FALSE, !.ret = n]
             ELSE [f EXCEPT !.cmd_required = FALSE, !.cmd_allowed = FALSE,
                            !.cur_cl = n, !.idx = @ + 1]

\* Mutant: a background separator requires a command after it like the others.
fold_sep_background_requires(f) ==
    IF f.cmd_required
    THEN [f EXCEPT !.ret = error("Found a separator where a command was expected.")]
    ELSE LET t == f.parts[f.idx + 1].t
             n == fold_separator(f.cur_cl, t)
         IN  IF n.kind = "fail"
             THEN [f EXCEPT !.cmd_required = TRUE, !.cmd_allowed = TRUE, !.ret = n]
             ELSE [f EXCEPT !.cmd_required = TRUE,
                            !.cmd_allowed = TRUE, !.cur_cl = n, !.idx = @ + 1]

\* Mutant: no separator requires a command after it.
fold_sep_nothing_required(f) ==
    IF f.cmd_required
    THEN [f EXCEPT !.ret = error("Found a separator where a command was expected.")]
    ELSE LET t == f.parts[f.idx + 1].t
             n == fold_separator(f.cur_cl, t)
         IN  IF n.kind = "fail"
             THEN [f EXCEPT !.cmd_required = TRUE, !.cmd_allowed = TRUE, !.ret = n]
             ELSE [f EXCEPT !.cmd_required = FALSE,
                            !.cmd_allowed = TRUE, !.cur_cl = n, !.idx = @ + 1]

\* One iteration of the while loop on a sep part.
fold_sep(f) ==
    IF f.cmd_required
    THEN [f EXCEPT !.ret = error("Found a separator where a command was expected.")]
    ELSE LET t == f.parts[f.idx + 1].t
             n == fold_separator(f.cur_cl, t)
         IN  IF n.kind = "fail"
             THEN [f EXCEPT !.cmd_required = TRUE, !.cmd_allowed = TRUE, !.ret = n]
             ELSE [f EXCEPT !.cmd_required = (t.kind # "background"),
                            !.cmd_allowed = TRUE, !.cur_cl = n, !.idx = @ + 1]

\* Mutant: a level may end on any separator.
fold_return_lenient(f) == [f EXCEPT !.ret = parsed(f.cur_cl)]

\* The ret after the while loop.
fold_return(f) ==
    [f EXCEPT !.ret = IF f.cmd_required
                      THEN error("Missing command at end of line.")
                      ELSE parsed(f.cur_cl)]

fold_step(f) ==
    IF f.idx < Len(f.parts)
    THEN IF f.parts[f.idx + 1].kind = "sep" THEN fold_sep(f) ELSE fold_part(f)
    ELSE fold_return(f)

RECURSIVE fold_run(_)
fold_run(f) ==
    IF f.ret # <<>> THEN f.ret
    ELSE CHOOSE r \in {fold_run(g) : g \in {fold_step(f)}} : TRUE

finish_parse(parts) == fold_run(finish_enter(parts))

(***************************************************************************)
(* parse and parse_tokens.  P is the state of one call of parse:           *)
(* [tokens, idx, stack, fold, result, pc].  stack holds the locals         *)
(* [parts, cur] of every live activation of parse_tokens, the innermost    *)
(* last, so level = Len(stack) - 1; idx is the index they share by         *)
(* reference.                                                              *)
(***************************************************************************)
activation(parts, cur) == [parts |-> parts, cur |-> cur]

pstate(ts, i, stk, f, r, at) ==
    [tokens |-> ts, idx |-> i, stack |-> stk, fold |-> f, result |-> r, pc |-> at]

level(P) == Len(P.stack) - 1
top(P) == P.stack[Len(P.stack)]

\* The innermost parse_tokens returns r: to the alt of the open_subshell arm
\* of its caller, or from parse_tokens(tokens, 0u, idx) to parse's caller.
pt_return(P, r) ==
    IF level(P) > 0 /\ r.kind = "parsed"
    THEN LET caller == P.stack[Len(P.stack) - 1]
         IN  [P EXCEPT !.stack = Append(SubSeq(P.stack, 1, Len(P.stack) - 2),
                                        activation(Append(caller.parts, subshell(r.cl)),
                                                   caller.cur)),
                       !.idx = @ + 1, !.fold = <<>>, !.pc = "scan"]
    ELSE IF level(P) > 0 /\ r.kind = "continuation_required"
    THEN [P EXCEPT !.stack = <<>>, !.fold = <<>>, !.pc = "done",
                   !.result = Abort("Inconceivable!")]
    ELSE [P EXCEPT !.stack = <<>>, !.fold = <<>>, !.pc = "done", !.result = r]

\* The macro #make_command[cur, parts] on an activation; ret is the
\* parse_result it returns with, <<>> when it falls through.
flush(a) ==
    IF a.cur # <<>>
    THEN LET r == make_command(a.cur)
         IN  CASE r.kind = "left" ->
                    [parts |-> Append(a.parts, cmd(r.c)), cur |-> <<>>, ret |-> <<>>]
               [] r.kind = "right" ->
                    [parts |-> a.parts, cur |-> a.cur, ret |-> error(r.e)]
               [] OTHER -> [parts |-> a.parts, cur |-> a.cur, ret |-> r]
    ELSE [parts |-> a.parts, cur |-> a.cur, ret |-> <<>>]

\* ret finish_parse(parts): up to the first iteration of its loop.
call_finish_parse(P, parts) ==
    LET f == finish_enter(parts)
    IN  IF f.ret # <<>> THEN pt_return(P, f.ret)
        ELSE [P EXCEPT !.fold = f, !.pc = "finish"]

scan_error(P, t) == pt_return(P, error(t.msg))

scan_separator(P, t) ==
    LET fl == flush(top(P))
    IN  IF fl.ret # <<>> THEN pt_return(P, fl.ret)
        ELSE [P EXCEPT !.stack[Len(P.stack)] =
                           activation(Append(fl.parts, sep(t)), fl.cur),
                       !.idx = @ + 1]

scan_open_subshell(P, t) ==
    LET fl == flush(top(P))
    IN  IF fl.ret # <<>> THEN pt_return(P, fl.ret)
        ELSE [P EXCEPT !.stack = Append(
                           [P.stack EXCEPT ![Len(P.stack)] = activation(fl.parts, fl.cur)],
                           activation(<<>>, <<>>)),
                       !.idx = @ + 1]

\* Mutant: a close_subshell at level 0 ends the level like any other.
scan_close_subshell_any_level(P, t) ==
    LET fl == flush(top(P))
    IN  IF fl.ret # <<>> THEN pt_return(P, fl.ret)
        ELSE call_finish_parse(P, fl.parts)

scan_close_subshell(P, t) ==
    IF level(P) = 0
    THEN pt_return(P, error("Unexpected ')'."))
    ELSE LET fl == flush(top(P))
         IN  IF fl.ret # <<>> THEN pt_return(P, fl.ret)
             ELSE call_finish_parse(P, fl.parts)

\* Mutant: a continuation token ends the pending command.
scan_continuation_flush(P, t) ==
    LET fl == flush(top(P))
    IN  IF fl.ret # <<>> THEN pt_return(P, fl.ret)
        ELSE [P EXCEPT !.stack[Len(P.stack)] = activation(fl.parts, fl.cur),
                       !.idx = @ + 1]

scan_continuation(P, t) == [P EXCEPT !.idx = @ + 1]

scan_other(P, t) ==
    [P EXCEPT !.stack[Len(P.stack)] = activation(top(P).parts, Append(top(P).cur, t)),
              !.idx = @ + 1]

\* After the while loop of parse_tokens.
scan_end(P) ==
    IF level(P) > 0
    THEN pt_return(P, error("Expected ')'"))
    ELSE LET fl == flush(top(P))
         IN  IF fl.ret # <<>> THEN pt_return(P, fl.ret)
             ELSE call_finish_parse(P, fl.parts)

Separators == {"pipe", "and", "or", "background", "sequence"}

scan_step(P) ==
    IF P.idx < Len(P.tokens)
    THEN LET t == P.tokens[P.idx + 1]
         IN  CASE t.kind = "error" -> scan_error(P, t)
               [] t.kind \in Separators -> scan_separator(P, t)
               [] t.kind = "open_subshell" -> scan_open_subshell(P, t)
               [] t.kind = "close_subshell" -> scan_close_subshell(P, t)
               [] t.kind = "continuation" -> scan_continuation(P, t)
               [] OTHER -> scan_other(P, t)
    ELSE scan_end(P)

\* One iteration of finish_parse's loop, or its final ret.
finish_step(P) ==
    LET f == fold_step(P.fold)
    IN  IF f.ret # <<>> THEN pt_return(P, f.ret)
        ELSE [P EXCEPT !.fold = f]

\* Mutant: the last token is not looked at before the scan.
parse_enter_no_check(ts) ==
    IF ts = <<>>
    THEN pstate(ts, 0, <<>>, <<>>, parsed(cl_sequence(<<>>)), "done")
    ELSE pstate(ts, 0, <<activation(<<>>, <<>>)>>, <<>>, <<>>, "scan")

\* Mutant: a continuation token anywhere asks for more input.
parse_enter_any_continuation(ts) ==
    IF ts = <<>>
    THEN pstate(ts, 0, <<>>, <<>>, parsed(cl_sequence(<<>>)), "done")
    ELSE IF \E i \in 1..Len(ts) : ts[i] = continuation
    THEN pstate(ts, 0, <<>>, <<>>, continuation_required, "done")
    ELSE pstate(ts, 0, <<activation(<<>>, <<>>)>>, <<>>, <<>>, "scan")

parse_enter(ts) ==
    IF ts = <<>>
    THEN pstate(ts, 0, <<>>, <<>>, parsed(cl_sequence(<<>>)), "done")
    ELSE IF ts[Len(ts)] = continuation
    THEN pstate(ts, 0, <<>>, <<>>, continuation_required, "done")
    ELSE pstate(ts, 0, <<activation(<<>>, <<>>)>>, <<>>, <<>>, "scan")

parse_step(P) == IF P.pc = "scan" THEN scan_step(P) ELSE finish_step(P)

RECURSIVE parse_run(_)
parse_run(P) ==
    IF P.pc = "done" THEN P.result
    ELSE CHOOSE r \in {parse_run(Q) : Q \in {parse_step(P)}} : TRUE

parse(ts) == parse_run(parse_enter(ts))

(***************************************************************************)
(* tokenize as a process: one step per iteration of its loop.              *)
(***************************************************************************)
Chars == {"a", " ", "\\", "\"", "'", ">", "<", "2", "&", "1", "|", ";", "(", ")"}

TokIdle == c = <<>> /\ offset = 0 /\ tokens = <<>> /\ tpc = "idle"
ParseIdle ==
    /\ ptokens = <<>> /\ idx = 0 /\ stack = <<>> /\ fold = <<>>
    /\ result = <<>> /\ pc = "idle"
McIdle == mc = <<>>
CallerIdle == line1 = <<>> /\ line2 = <<>> /\ cpc = "idle" /\ cres = <<>>

TokInit ==
    /\ c \in SeqsUpTo(Chars, MaxLen)
    /\ offset = 0
    /\ tokens = <<>>
    /\ tpc = "start"
    /\ ParseIdle /\ McIdle /\ CallerIdle

TokenizeStart ==
    /\ tpc = "start"
    /\ offset' = consume_whitespace(c, 0).offset
    /\ tpc' = "loop"
    /\ UNCHANGED <<c, tokens, parseVars, mc, callerVars>>

TokenizeStep ==
    /\ tpc = "loop"
    /\ offset # Len(c)
    /\ LET t == consume_token(c, offset)
       IN  /\ tokens' = Append(tokens, t.t)
           /\ offset' = t.offset
           /\ tpc' = IF t.t.kind = "fail" THEN "aborted" ELSE "loop"
    /\ UNCHANGED <<c, parseVars, mc, callerVars>>

TokenizeReturn ==
    /\ tpc = "loop"
    /\ offset = Len(c)
    /\ tpc' = "done"
    /\ UNCHANGED <<c, offset, tokens, parseVars, mc, callerVars>>

TokNext == TokenizeStart \/ TokenizeStep \/ TokenizeReturn

SpecTok == TokInit /\ [][TokNext]_vars

\* tokenize on lines of words, whitespace, quotes and backslashes.
QuoteChars == {"a", " ", "\\", "\"", "'"}

QuoteInit ==
    /\ c \in SeqsUpTo(QuoteChars, MaxQuoteLen)
    /\ offset = 0
    /\ tokens = <<>>
    /\ tpc = "start"
    /\ ParseIdle /\ McIdle /\ CallerIdle

SpecQuote == QuoteInit /\ [][TokNext]_vars

\* tokenize on lines of words and error redirections.
TwoChars == {"2", ">", "&", "1", " ", "'"}

TwoInit ==
    /\ c \in SeqsUpTo(TwoChars, MaxTwoLen)
    /\ offset = 0
    /\ tokens = <<>>
    /\ tpc = "start"
    /\ ParseIdle /\ McIdle /\ CallerIdle

SpecTwo == TwoInit /\ [][TokNext]_vars

(***************************************************************************)
(* make_command as a process: one step per token of its for loop.          *)
(***************************************************************************)
CmdTokens ==
    {string(<<"a">>), redirect_output(<<"f">>), redirect_output(<<"g">>),
     redirect_error(<<"f">>), redirect_error_to_output, redirect_input(<<"f">>),
     background}

McInit ==
    /\ \E ts \in SeqsUpTo(CmdTokens, MaxCmdTokens) : ts # <<>> /\ mc = mc_enter(ts)
    /\ TokIdle /\ ParseIdle /\ CallerIdle

McAt(kinds) ==
    /\ mc # <<>>
    /\ mc.ret = <<>>
    /\ mc.k < Len(mc.tokens)
    /\ mc.tokens[mc.k + 1].kind \in kinds

McString ==
    /\ McAt({"string"})
    /\ mc' = mc_string(mc, mc.tokens[mc.k + 1])
    /\ UNCHANGED <<tokVars, parseVars, callerVars>>

McRedirectOutput ==
    /\ McAt({"redirect_output"})
    /\ mc' = mc_redirect_output(mc, mc.tokens[mc.k + 1])
    /\ UNCHANGED <<tokVars, parseVars, callerVars>>

McRedirectError ==
    /\ McAt({"redirect_error"})
    /\ mc' = mc_redirect_error(mc, mc.tokens[mc.k + 1])
    /\ UNCHANGED <<tokVars, parseVars, callerVars>>

McRedirectErrorToOutput ==
    /\ McAt({"redirect_error_to_output"})
    /\ mc' = mc_redirect_error_to_output(mc, mc.tokens[mc.k + 1])
    /\ UNCHANGED <<tokVars, parseVars, callerVars>>

McRedirectInput ==
    /\ McAt({"redirect_input"})
    /\ mc' = mc_redirect_input(mc, mc.tokens[mc.k + 1])
    /\ UNCHANGED <<tokVars, parseVars, callerVars>>

McUnexpected ==
    /\ mc # <<>>
    /\ mc.ret = <<>>
    /\ mc.k < Len(mc.tokens)
    /\ mc.tokens[mc.k + 1].kind \notin
           {"string", "redirect_output", "redirect_error",
            "redirect_error_to_output", "redirect_input"}
    /\ mc' = mc_unexpected(mc, mc.tokens[mc.k + 1])
    /\ UNCHANGED <<tokVars, parseVars, callerVars>>

McReturn ==
    /\ mc # <<>>
    /\ mc.ret = <<>>
    /\ mc.k = Len(mc.tokens)
    /\ mc' = mc_return(mc)
    /\ UNCHANGED <<tokVars, parseVars, callerVars>>

McNext ==
    \/ McString \/ McRedirectOutput \/ McRedirectError
    \/ McRedirectErrorToOutput \/ McRedirectInput \/ McUnexpected \/ McReturn

SpecCmd == McInit /\ [][McNext]_vars

(***************************************************************************)
(* parse as a process: its entry, one step per token scanned by            *)
(* parse_tokens and one step per iteration of finish_parse's loop.         *)
(***************************************************************************)
CurP == pstate(ptokens, idx, stack, fold, result, pc)

SetP(Q) ==
    /\ ptokens' = Q.tokens
    /\ idx' = Q.idx
    /\ stack' = Q.stack
    /\ fold' = Q.fold
    /\ result' = Q.result
    /\ pc' = Q.pc

ParseTokens ==
    {string(<<"a">>), pipe, and, or, background, sequence, open_subshell,
     close_subshell, continuation, error("Missing '."),
     redirect_output(<<"f">>), redirect_error_to_output}

FoldTokens ==
    {string(<<"a">>), string(<<"b">>), pipe, and, or, background, sequence,
     open_subshell, close_subshell}

ParseInitFrom(ts) ==
    /\ ptokens = ts
    /\ idx = 0 /\ stack = <<>> /\ fold = <<>> /\ result = <<>>
    /\ pc = "entry"

ParseInit ==
    /\ \E ts \in SeqsUpTo(ParseTokens, MaxTokens) : ParseInitFrom(ts)
    /\ TokIdle /\ McIdle /\ CallerIdle

FoldInit ==
    /\ \E ts \in SeqsUpTo(FoldTokens, MaxFoldTokens) : ParseInitFrom(ts)
    /\ TokIdle /\ McIdle /\ CallerIdle

ParseEnter ==
    /\ pc = "entry"
    /\ SetP(parse_enter(ptokens))
    /\ UNCHANGED <<tokVars, mc, callerVars>>

ScanAt(kinds) ==
    /\ pc = "scan"
    /\ idx < Len(ptokens)
    /\ ptokens[idx + 1].kind \in kinds

ScanError ==
    /\ ScanAt({"error"})
    /\ SetP(scan_error(CurP, ptokens[idx + 1]))
    /\ UNCHANGED <<tokVars, mc, callerVars>>

ScanSeparator ==
    /\ ScanAt(Separators)
    /\ SetP(scan_separator(CurP, ptokens[idx + 1]))
    /\ UNCHANGED <<tokVars, mc, callerVars>>

ScanOpenSubshell ==
    /\ ScanAt({"open_subshell"})
    /\ SetP(scan_open_subshell(CurP, ptokens[idx + 1]))
    /\ UNCHANGED <<tokVars, mc, callerVars>>

ScanCloseSubshell ==
    /\ ScanAt({"close_subshell"})
    /\ SetP(scan_close_subshell(CurP, ptokens[idx + 1]))
    /\ UNCHANGED <<tokVars, mc, callerVars>>

ScanContinuation ==
    /\ ScanAt({"continuation"})
    /\ SetP(scan_continuation(CurP, ptokens[idx + 1]))
    /\ UNCHANGED <<tokVars, mc, callerVars>>

ScanOther ==
    /\ ScanAt({"string", "redirect_output", "redirect_error",
               "redirect_error_to_output", "redirect_input"})
    /\ SetP(scan_other(CurP, ptokens[idx + 1]))
    /\ UNCHANGED <<tokVars, mc, callerVars>>

ScanEnd ==
    /\ pc = "scan"
    /\ idx >= Len(ptokens)
    /\ SetP(scan_end(CurP))
    /\ UNCHANGED <<tokVars, mc, callerVars>>

FoldAt(kinds) ==
    /\ pc = "finish"
    /\ fold.idx < Len(fold.parts)
    /\ fold.parts[fold.idx + 1].kind \in kinds

FoldPart ==
    /\ FoldAt({"cmd", "subshell"})
    /\ SetP(finish_step(CurP))
    /\ UNCHANGED <<tokVars, mc, callerVars>>

FoldSep ==
    /\ FoldAt({"sep"})
    /\ SetP(finish_step(CurP))
    /\ UNCHANGED <<tokVars, mc, callerVars>>

FoldReturn ==
    /\ pc = "finish"
    /\ fold.idx >= Len(fold.parts)
    /\ SetP(finish_step(CurP))
    /\ UNCHANGED <<tokVars, mc, callerVars>>

ScanNext ==
    \/ ScanError \/ ScanSeparator \/ ScanOpenSubshell \/ ScanCloseSubshell
    \/ ScanContinuation \/ ScanOther \/ ScanEnd

FoldNext == FoldPart \/ FoldSep \/ FoldReturn

ParseNext == ParseEnter \/ ScanNext \/ FoldNext

SpecParse == ParseInit /\ [][ParseNext]_vars

\* Inputs of words and operators only: no error or continuation token is
\* ever scanned.
OperatorNext ==
    \/ ParseEnter
    \/ ScanSeparator \/ ScanOpenSubshell \/ ScanCloseSubshell \/ ScanOther
    \/ ScanEnd
    \/ FoldPart \/ FoldSep \/ FoldReturn

SpecFold == FoldInit /\ [][OperatorNext]_vars

\* parse on token vectors that hold one subshell: before ++ ( inside ) ++
\* after, the three runs being words and separators.
SubshellTokens == {string(<<"a">>), string(<<"b">>), pipe, and, background}

SubshellInit ==
    /\ \E ts \in SeqsUpTo(SubshellTokens, MaxSubshellTokens) :
           \E i \in 0..Len(ts) :
               \E j \in i..Len(ts) :
                   ParseInitFrom(SubSeq(ts, 1, i) \o <<open_subshell>>
                                     \o SubSeq(ts, i + 1, j) \o <<close_subshell>>
                                     \o SubSeq(ts, j + 1, Len(ts)))
    /\ TokIdle /\ McIdle /\ CallerIdle

SpecSubshell == SubshellInit /\ [][OperatorNext]_vars

(***************************************************************************)
(* The interactive caller of parse (src/parser.rs, the comment of parse):  *)
(* it tokenizes a line and parses it; on continuation_required it reads    *)
(* another line and calls parse again with the new tokens concatenated to  *)
(* the present tokens.                                                     *)
(***************************************************************************)
LineChars == {"a", " ", "\\", "&", "\"", ">", ")"}

CallerInit ==
    /\ line1 \in SeqsUpTo(LineChars, MaxLine)
    /\ line2 = <<>>
    /\ cpc = "read"
    /\ cres = <<>>
    /\ TokIdle /\ ParseIdle /\ McIdle

ParseFirst ==
    /\ cpc = "read"
    /\ \E r \in {parse(tokenize(line1))} :
           /\ cres' = r
           /\ cpc' = IF r = continuation_required THEN "continue" ELSE "done"
    /\ UNCHANGED <<line1, line2, tokVars, parseVars, mc>>

ParseAgain ==
    /\ cpc = "continue"
    /\ \E l \in SeqsUpTo(LineChars, MaxLine) :
           /\ line2' = l
           /\ cres' = parse(tokenize(line1) \o tokenize(l))
    /\ cpc' = "reparsed"
    /\ UNCHANGED <<line1, tokVars, parseVars, mc>>

CallerNext == ParseFirst \/ ParseAgain

SpecCaller == CallerInit /\ [][CallerNext]_vars

(***************************************************************************)
(* Properties.                                                             *)
(***************************************************************************)
Last(s) == s[Len(s)]

NotContinuation(t) == t # continuation
RemoveContinuation(ts) == SelectSeq(ts, NotContinuation)

NoLexError(l) == \A i \in 1..Len(tokenize(l)) : tokenize(l)[i].kind # "error"

\* Every pipeline, sequence, and, or node of cl holds at least n children.
RECURSIVE MinChildren(_, _)
MinChildren(cl, n) ==
    CASE cl.kind = "singleton" -> TRUE
      [] cl.kind = "background" -> MinChildren(cl.cl, n)
      [] OTHER -> /\ Len(cl.args) >= n
                  /\ \A i \in 1..Len(cl.args) : MinChildren(cl.args[i], n)

Word == string(<<"a">>)
Single == singleton(command(<<<<"a">>>>, stdin, stdout, stderr))

\* C1: parse is total: whatever the tokens, it returns parsed,
\* continuation_required or error and never aborts on an assert or a fail
\* (SpecParse).  Refuted: on [open_subshell, close_subshell] the nested
\* level calls finish_parse with no parts and its assert fails.
C1_ParseTotal ==
    pc = "done" => result.kind \in {"parsed", "continuation_required", "error"}

\* C2: tokenize terminates without aborting: every consume_token step
\* returns an offset strictly greater than the one it was given and at most
\* the length of the input, so the loop, which never aborts and so always
\* has a next step until tokenize returns, reaches offset = length
\* (SpecTok).
C2_TokenizeTerminates ==
    /\ [](tpc \in {"start", "loop", "done"} /\ offset <= Len(c))
    /\ [][TokenizeStep => (offset' > offset /\ offset' <= Len(c))]_vars

C2_Witness == tpc = "done" /\ Len(tokens) >= 3 /\ offset = Len(c)

\* C3: an error token is the last token tokenize produces: once it is
\* produced the cursor is at the end of the input, so no further token
\* follows it, and there is at most one (SpecTok).
C3_ErrorIsLast ==
    \A i \in 1..Len(tokens) :
        tokens[i].kind = "error" => (i = Len(tokens) /\ offset = Len(c))

C3_Witness ==
    /\ tpc = "done"
    /\ c = <<"a", ">", ";", "a">>
    /\ tokens = <<Word, error("No output file specified.")>>

\* C4: on a non-empty token sequence parse returns continuation_required
\* exactly when the last token is continuation, and then no token is
\* scanned, whatever the earlier tokens are (SpecParse).
C4_ContinuationIffLast ==
    ptokens # <<>> =>
        /\ pc = "done" =>
               (result = continuation_required <=> Last(ptokens) = continuation)
        /\ Last(ptokens) = continuation =>
               (idx = 0 /\ stack = <<>> /\ pc \in {"entry", "done"})

C4_Witness ==
    /\ pc = "done"
    /\ result = continuation_required
    /\ Len(ptokens) = 3
    /\ ptokens[1].kind = "error"
    /\ ptokens[2] = close_subshell

\* C5 as stated: when the first line asked for a continuation and neither
\* line holds a lexical error, the parse of the concatenated tokens equals
\* the parse of the two raw lines joined by a space (SpecCaller).  Refuted:
\* in the joined line the backslash is no longer last and becomes a word.
C5_JoinedWithSpace ==
    (cpc = "reparsed" /\ NoLexError(line1) /\ NoLexError(line2)) =>
        cres = parse(tokenize(line1 \o <<" ">> \o line2))

\* C5 amended: when the second line yields at least one token, the parse of
\* the concatenated tokens equals the parse of the line formed by the first
\* line without its final backslash, a space, and the second line
\* (SpecCaller).
C5_JoinedWithoutBackslash ==
    (/\ cpc = "reparsed"
     /\ NoLexError(line1) /\ NoLexError(line2)
     /\ tokenize(line2) # <<>>) =>
        cres = parse(tokenize(SubSeq(line1, 1, Len(line1) - 1) \o <<" ">> \o line2))

C5_Witness ==
    /\ cpc = "reparsed"
    /\ line1 = <<"a", "\\">>
    /\ line2 = <<"a">>
    /\ cres = parsed(singleton(command(<<<<"a">>, <<"a">>>>, stdin, stdout, stderr)))

\* C6: continuation tokens before the last token are transparent: when the
\* last token is not continuation, parse returns what it returns on the
\* tokens with every continuation removed (SpecParse).
C6_ContinuationTransparent ==
    (pc = "done" /\ (ptokens = <<>> \/ Last(ptokens) # continuation)) =>
        result = parse(RemoveContinuation(ptokens))

C6_Witness ==
    /\ pc = "done"
    /\ ptokens = <<Word, continuation, Word>>
    /\ result = parsed(singleton(command(<<<<"a">>, <<"a">>>>, stdin, stdout, stderr)))

\* C7 as stated: every pipeline, sequence, and, or node of a parsed result
\* holds at least one child (SpecParse).  Refuted: parse of no tokens
\* returns the empty sequence.
C7_AtLeastOneChild ==
    (pc = "done" /\ result.kind = "parsed") => MinChildren(result.cl, 1)

\* C7 amended: on a non-empty token sequence, every pipeline, sequence, and,
\* or node of a parsed result holds at least one child (SpecParse).
C7_AtLeastOneChildNonEmptyInput ==
    (pc = "done" /\ result.kind = "parsed" /\ ptokens # <<>>) =>
        MinChildren(result.cl, 1)

C7_Witness ==
    /\ pc = "done"
    /\ result.kind = "parsed"
    /\ ptokens = <<Word, pipe, Word>>
    /\ result.cl = pipeline(<<Single, Single>>)

\* The channel a token of make_command's vocabulary sets.
Channel(t) ==
    CASE t.kind = "redirect_output" -> "output"
      [] t.kind \in {"redirect_error", "redirect_error_to_output"} -> "error"
      [] t.kind = "redirect_input" -> "input"
      [] OTHER -> "none"

InVocabulary(ts) == \A i \in 1..Len(ts) : ts[i].kind = "string" \/ Channel(ts[i]) # "none"

\* Token j targets a channel that an earlier token has set.
Repeats(ts, j) ==
    /\ Channel(ts[j]) # "none"
    /\ \E i \in 1..(j - 1) : Channel(ts[i]) = Channel(ts[j])

\* C8: on a run of word and redirection tokens make_command returns
\* "Multiple <channel> redirects." at the first token that targets a channel
\* an earlier token has set (redirect_error_to_output sets error), and
\* returns a command exactly when no channel is targeted twice (SpecCmd).
C8_NoSilentOverwrite ==
    (mc.ret # <<>> /\ InVocabulary(mc.tokens)) =>
        IF \E j \in 1..Len(mc.tokens) : Repeats(mc.tokens, j)
        THEN LET j == CHOOSE j \in 1..Len(mc.tokens) :
                          /\ Repeats(mc.tokens, j)
                          /\ \A i \in 1..(j - 1) : ~Repeats(mc.tokens, i)
             IN  /\ mc.ret = right("Multiple " \o Channel(mc.tokens[j]) \o " redirects.")
                 /\ mc.k = j - 1
        ELSE mc.ret.kind = "left"

C8_Witness ==
    /\ mc.ret = right("Multiple error redirects.")
    /\ mc.tokens[1] = redirect_error_to_output
    /\ mc.tokens[2].kind = "redirect_error"
    /\ mc.o = stdout

\* C9: redirect_error_to_output takes a snapshot of output: in the command
\* built, error is File(p) when redirect_output(p) precedes it, and Stdout
\* when none precedes it, also when redirect_output(p) follows it and sets
\* output to File(p) (SpecCmd).
C9_ErrorIsSnapshot ==
    (mc.ret # <<>> /\ mc.ret.kind = "left") =>
        \A j \in 1..Len(mc.tokens) :
            mc.tokens[j] = redirect_error_to_output =>
                /\ \A i \in 1..(j - 1) :
                       mc.tokens[i].kind = "redirect_output" =>
                           mc.ret.c.error = outfile(mc.tokens[i].s)
                /\ (\A i \in 1..(j - 1) : mc.tokens[i].kind # "redirect_output") =>
                       mc.ret.c.error = stdout
                /\ \A i \in (j + 1)..Len(mc.tokens) :
                       mc.tokens[i].kind = "redirect_output" =>
                           /\ mc.ret.c.error = stdout
                           /\ mc.ret.c.output = outfile(mc.tokens[i].s)

C9_Witness ==
    /\ mc.ret # <<>>
    /\ mc.ret.kind = "left"
    /\ mc.tokens = <<Word, redirect_error_to_output, redirect_output(<<"f">>)>>
    /\ mc.ret.c.error = stdout
    /\ mc.ret.c.output = outfile(<<"f">>)

\* The variadic node a separator token builds.
NodeKind(t) == IF t.kind = "pipe" THEN "pipeline" ELSE t.kind

\* C10: first-operator-wins grouping: folding a pipe, and, or, sequence
\* separator onto a running node of another kind makes the running node a
\* one-element node of the separator's kind holding the whole previous
\* node, and the next part becomes its second child; so a && b | c parses
\* to Pipeline([And([a, b]), c]) (SpecFold).
C10_FirstOperatorWins ==
    /\ [][(/\ FoldSep
           /\ pc' = "finish"
           /\ fold.parts[fold.idx + 1].t.kind # "background"
           /\ fold.cur_cl.kind # NodeKind(fold.parts[fold.idx + 1].t)) =>
          fold'.cur_cl = [kind |-> NodeKind(fold.parts[fold.idx + 1].t),
                          args |-> <<fold.cur_cl>>]]_vars
    /\ [][(/\ FoldPart
           /\ pc' = "finish"
           /\ fold.cur_cl.kind # "background"
           /\ Len(fold.cur_cl.args) = 1) =>
          fold'.cur_cl = [kind |-> fold.cur_cl.kind,
                          args |-> <<fold.cur_cl.args[1],
                                     part_to_cl(fold.parts[fold.idx + 1])>>]]_vars
    /\ []((pc = "done" /\ ptokens = <<Word, and, Word, pipe, Word>>) =>
          result = parsed(pipeline(<<cl_and(<<Single, Single>>), Single>>)))

C10_Witness ==
    /\ pc = "done"
    /\ ptokens = <<Word, and, Word, pipe, Word>>
    /\ result = parsed(pipeline(<<cl_and(<<Single, Single>>), Single>>))

WordB == string(<<"b">>)
SingleB == singleton(command(<<<<"b">>>>, stdin, stdout, stderr))

\* The singleton a lone word token parses to.
CmdOf(t) == singleton(command(<<t.s>>, stdin, stdout, stderr))

\* ts is n >= 2 words joined by n - 1 occurrences of the separator op.
IsChain(ts, op) ==
    /\ Len(ts) >= 3
    /\ Len(ts) % 2 = 1
    /\ \A i \in 1..Len(ts) :
           IF i % 2 = 1 THEN ts[i].kind = "string" ELSE ts[i] = op

\* C11: same-operator chains are flattened: n >= 2 commands joined by n - 1
\* occurrences of one of pipe, and, or, sequence parse to one node of that
\* kind whose children are the n singletons in input order (SpecFold).
C11_ChainsFlatten ==
    \A op \in {pipe, and, or, sequence} :
        (pc = "done" /\ IsChain(ptokens, op)) =>
            result = parsed([kind |-> NodeKind(op),
                             args |-> [i \in 1..((Len(ptokens) + 1) \div 2) |->
                                           CmdOf(ptokens[2 * i - 1])]])

C11_Witness ==
    /\ pc = "done"
    /\ ptokens = <<Word, and, WordB, and, Word>>
    /\ result = parsed(cl_and(<<Single, SingleB, Single>>))

\* C12: background fold: a background separator replaces the running node N
\* by Background(N), and a command or subshell part folded right after it
\* makes the running node Sequence([Background(N), next]), next never being
\* placed inside the Background, whatever N is; so a & b parses to
\* Sequence([Background(a), b]) (SpecFold).
C12_BackgroundFold ==
    /\ [][(/\ FoldSep
           /\ pc' = "finish"
           /\ fold.parts[fold.idx + 1].t = background) =>
          fold'.cur_cl = cl_background(fold.cur_cl)]_vars
    /\ [][(/\ FoldPart
           /\ pc' = "finish"
           /\ fold.parts[fold.idx].kind = "sep"
           /\ fold.parts[fold.idx].t = background) =>
          (/\ fold.cur_cl.kind = "background"
           /\ fold'.cur_cl = cl_sequence(<<fold.cur_cl,
                                           part_to_cl(fold.parts[fold.idx + 1])>>))]_vars
    /\ []((pc = "done" /\ ptokens = <<Word, background, WordB>>) =>
          result = parsed(cl_sequence(<<cl_background(Single), SingleB>>)))

C12_Witness ==
    /\ pc = "done"
    /\ ptokens = <<Word, pipe, WordB, background, Word>>
    /\ result = parsed(cl_sequence(<<cl_background(pipeline(<<Single, SingleB>>)),
                                    Single>>))

\* The open_subshell tokens of ts less its close_subshell tokens.
Depth(ts) ==
    Cardinality({i \in 1..Len(ts) : ts[i] = open_subshell})
        - Cardinality({i \in 1..Len(ts) : ts[i] = close_subshell})

Balanced(ts) ==
    /\ Depth(ts) = 0
    /\ \A k \in 0..Len(ts) : Depth(SubSeq(ts, 1, k)) >= 0

\* C13: parenthesis matching (SpecFold).  The level being scanned is the
\* number of open_subshell tokens not yet matched among the tokens scanned;
\* parse returns parsed only on balanced tokens; a close_subshell whose
\* level parses ends that level alone and its caller resumes at the next
\* token with the subshell as its newest part; every token is scanned once
\* (idx moves by one per token scanned and stays put while a level is
\* folded); the end of input at level > 0 gives "Expected ')'" and a
\* close_subshell at level 0 gives "Unexpected ')'.".
C13_ParenthesisMatching ==
    /\ [](pc \in {"scan", "finish"} =>
            Len(stack) - 1 = Depth(SubSeq(ptokens, 1, idx)))
    /\ []((pc = "done" /\ result.kind = "parsed") => Balanced(ptokens))
    /\ [][(/\ pc \in {"scan", "finish"}
           /\ idx < Len(ptokens)
           /\ ptokens[idx + 1] = close_subshell
           /\ pc' = "scan") =>
          (/\ Len(stack) > 1
           /\ Len(stack') = Len(stack) - 1
           /\ idx' = idx + 1
           /\ Last(stack').cur = <<>>
           /\ Last(Last(stack').parts).kind = "subshell"
           /\ \A k \in 1..(Len(stack') - 1) : stack'[k] = stack[k])]_vars
    /\ [][(pc \in {"scan", "finish"} /\ pc' # "done") =>
          (/\ pc' = "scan" => idx' = idx + 1
           /\ pc' = "finish" => idx' = idx)]_vars
    /\ [][(ScanEnd /\ Len(stack) > 1) =>
          (pc' = "done" /\ result' = error("Expected ')'"))]_vars
    /\ [][(ScanCloseSubshell /\ Len(stack) = 1) =>
          (pc' = "done" /\ result' = error("Unexpected ')'."))]_vars

C13_Witness ==
    /\ pc = "done"
    /\ ptokens = <<open_subshell, open_subshell, Word, close_subshell, close_subshell>>
    /\ result = parsed(Single)

\* The quote left open when a word scanned from position k of v, in quote
\* state q, runs into the end of v: "'" or "\"", and "none" when the word
\* ends outside any quoted run.
RECURSIVE OpenQuote(_, _, _)
OpenQuote(v, k, q) ==
    IF k >= Len(v) THEN q
    ELSE CASE q = "none" ->
                IF is_token_separator(v, k) THEN "none"
                ELSE IF v[k + 1] \in {"'", "\""} THEN OpenQuote(v, k + 1, v[k + 1])
                ELSE OpenQuote(v, k + 1, "none")
           [] q = "'" ->
                OpenQuote(v, k + 1, IF v[k + 1] = "'" THEN "none" ELSE "'")
           [] q = "\"" ->
                IF v[k + 1] = "\"" THEN OpenQuote(v, k + 1, "none")
                ELSE IF v[k + 1] = "\\" /\ k + 1 < Len(v) THEN OpenQuote(v, k + 2, "\"")
                ELSE OpenQuote(v, k + 1, "\"")

\* The channel of the redirection that starts at off: ">" and "<" always,
\* "2>" unless it is the whole of 2>&1; "none" elsewhere.
RedirectAt(v, off) ==
    CASE v[off + 1] = ">" -> "output"
      [] v[off + 1] = "<" -> "input"
      [] v[off + 1] = "2" /\ off + 1 < Len(v) /\ v[off + 2] = ">"
             /\ consume_two(v, off).t # redirect_error_to_output -> "error"
      [] OTHER -> "none"

\* Where the word of the token that starts at off is scanned from: off for
\* an ordinary word, behind the operator and the whitespace for a
\* redirection, -1 when the token has no word.
WordStart(v, off) ==
    CASE RedirectAt(v, off) \in {"output", "input"} -> whitespace_end(v, off + 1)
      [] RedirectAt(v, off) = "error" -> whitespace_end(v, off + 2)
      [] v[off + 1] \in {"|", "&", ";", "(", ")"} -> -1
      [] v[off + 1] = "2" /\ consume_two(v, off).t = redirect_error_to_output -> -1
      [] v[off + 1] = "\\" /\ off + 1 = Len(v) -> -1
      [] OTHER -> off

\* The token scanned next has a word and that word ends in an open quote.
UnterminatedQuote ==
    /\ TokenizeStep
    /\ WordStart(c, offset) >= 0
    /\ OpenQuote(c, WordStart(c, offset), "none") # "none"

MissingQuote == error("Missing " \o OpenQuote(c, WordStart(c, offset), "none") \o ".")

\* C14 as stated: when the word of a token, an ordinary word or the target
\* of a redirection, runs into an unterminated quoted run, the token
\* produced is the last one and is error("Missing '.") or
\* error("Missing \".") after the quote left open (SpecTok).  Refuted: a
\* redirection replaces the message of its target word by its own.
C14_MissingQuote ==
    [][UnterminatedQuote =>
          (Last(tokens') = MissingQuote /\ offset' = Len(c))]_vars

\* C14 amended: in an ordinary word the token is error("Missing '.") or
\* error("Missing \"."); in the target word of a redirection it is
\* error("Could not parse file name for <channel> redirection."); in both
\* cases it is the last token (SpecTok).
C14_MissingQuoteOrTargetError ==
    [][UnterminatedQuote =>
          (/\ Last(tokens') =
                  IF RedirectAt(c, offset) = "none" THEN MissingQuote
                  ELSE error("Could not parse file name for "
                             \o RedirectAt(c, offset) \o " redirection.")
           /\ offset' = Len(c))]_vars

C14_Witness ==
    /\ tpc = "done"
    /\ c = <<"a", "<", " ", "'">>
    /\ tokens = <<Word, error("Could not parse file name for input redirection.")>>

\* The quote state at the end of v when v is read from its start: any quote
\* met outside a quoted run opens one.
RECURSIVE LineQuote(_, _, _)
LineQuote(v, k, q) ==
    IF k >= Len(v) THEN q
    ELSE CASE q = "none" ->
                LineQuote(v, k + 1, IF v[k + 1] \in {"'", "\""} THEN v[k + 1] ELSE "none")
           [] q = "'" ->
                LineQuote(v, k + 1, IF v[k + 1] = "'" THEN "none" ELSE "'")
           [] q = "\"" ->
                IF v[k + 1] = "\"" THEN LineQuote(v, k + 1, "none")
                ELSE IF v[k + 1] = "\\" /\ k + 1 < Len(v) THEN LineQuote(v, k + 2, "\"")
                ELSE LineQuote(v, k + 1, "\"")

\* The last character of v is a backslash outside any quoted run.
TrailingBackslash(v) ==
    /\ v # <<>>
    /\ Last(v) = "\\"
    /\ LineQuote(SubSeq(v, 1, Len(v) - 1), 0, "none") = "none"

EndsWithContinuation(ts) == ts # <<>> /\ Last(ts) = continuation

\* C15 as stated: the tokens of a line end with continuation exactly when
\* the last character of the line is a backslash outside any quoted run, and
\* continuation is at no other position (SpecTok).  Refuted: the trailing
\* backslash of `>\` ends an empty redirection target, which is an error.
C15_ContinuationAtEnd ==
    /\ tpc = "done" => (EndsWithContinuation(tokens) <=> TrailingBackslash(c))
    /\ \A i \in 1..Len(tokens) :
           tokens[i] = continuation => (i = Len(tokens) /\ offset = Len(c))

\* C15 amended: the tokens end with continuation exactly when the last
\* character is a backslash outside any quoted run and no token is a
\* lexical error; continuation is at no other position (SpecTok).
C15_ContinuationAtEndUnlessError ==
    /\ tpc = "done" =>
           (EndsWithContinuation(tokens) <=>
                (/\ TrailingBackslash(c)
                 /\ \A i \in 1..Len(tokens) : tokens[i].kind # "error"))
    /\ \A i \in 1..Len(tokens) :
           tokens[i] = continuation => (i = Len(tokens) /\ offset = Len(c))

C15_Witness ==
    /\ tpc = "done"
    /\ c = <<"'", "a", "'", "\\">>
    /\ tokens = <<Word, continuation>>

\* The text of the word scanned from position k of v in quote state q, read
\* left to right: outside quotes a character stands for itself and a quote
\* opens a run; a single-quoted run is verbatim; in a double-quoted run a
\* backslash pair \" is ", \\ is \ and any other pair is both characters.
RECURSIVE WordText(_, _, _)
WordText(v, k, q) ==
    IF k >= Len(v) THEN <<>>
    ELSE CASE q = "none" ->
                IF is_token_separator(v, k) THEN <<>>
                ELSE IF v[k + 1] \in {"'", "\""} THEN WordText(v, k + 1, v[k + 1])
                ELSE <<v[k + 1]>> \o WordText(v, k + 1, "none")
           [] q = "'" ->
                IF v[k + 1] = "'" THEN WordText(v, k + 1, "none")
                ELSE <<v[k + 1]>> \o WordText(v, k + 1, "'")
           [] q = "\"" ->
                IF v[k + 1] = "\"" THEN WordText(v, k + 1, "none")
                ELSE IF v[k + 1] = "\\" /\ k + 1 < Len(v)
                THEN (IF v[k + 2] \in {"\"", "\\"} THEN <<v[k + 2]>>
                      ELSE <<"\\", v[k + 2]>>) \o WordText(v, k + 2, "\"")
                ELSE <<v[k + 1]>> \o WordText(v, k + 1, "\"")

\* C16: quote processing: the token scanned for a word whose quoted runs
\* are all terminated is the one string made of its segments in order, a
\* double-quoted run giving its characters with \" as ", \\ as \ and any
\* other backslash pair as both characters, a single-quoted run giving its
\* characters verbatim; so a"\""a is the single word a"a (SpecQuote).
C16_QuotedText ==
    /\ [][(/\ TokenizeStep
           /\ WordStart(c, offset) = offset
           /\ OpenQuote(c, offset, "none") = "none") =>
          Last(tokens') = string(WordText(c, offset, "none"))]_vars
    /\ []((tpc = "done" /\ c = <<"a", "\"", "\\", "\"", "\"", "a">>) =>
          tokens = <<string(<<"a", "\"", "a">>)>>)

C16_Witness ==
    /\ tpc = "done"
    /\ c = <<"a", "\"", "\\", "\"", "\"", "a">>
    /\ tokens = <<string(<<"a", "\"", "a">>)>>

\* The characters 2>&1 stand at off, followed by a separator or by the end
\* of v.
ErrorToOutputAt(v, off) ==
    /\ off + 4 <= Len(v)
    /\ SubSeq(v, off + 1, off + 4) = <<"2", ">", "&", "1">>
    /\ (off + 4 = Len(v) \/ is_token_separator(v, off + 4))

\* The characters 2> stand at off and are not part of such a 2>&1.
ErrorRedirectAt(v, off) ==
    /\ off + 2 <= Len(v)
    /\ SubSeq(v, off + 1, off + 2) = <<"2", ">">>
    /\ ~ErrorToOutputAt(v, off)

\* The target word of the error redirection at off starts here.
TargetStart(v, off) == whitespace_end(v, off + 2)

\* The parts of C17 that do not depend on the target word's quotes.
DispatchOnTwo ==
    /\ [][(TokenizeStep /\ ErrorToOutputAt(c, offset)) =>
          (/\ Last(tokens') = redirect_error_to_output
           /\ offset' = whitespace_end(c, offset + 4))]_vars
    /\ [][(TokenizeStep /\ Last(tokens') = redirect_error_to_output) =>
          ErrorToOutputAt(c, offset)]_vars
    /\ [][(/\ TokenizeStep
           /\ ErrorRedirectAt(c, offset)
           /\ OpenQuote(c, TargetStart(c, offset), "none") = "none") =>
          Last(tokens') =
              IF WordText(c, TargetStart(c, offset), "none") = <<>>
              THEN error("No error file specified.")
              ELSE redirect_error(WordText(c, TargetStart(c, offset), "none"))]_vars
    /\ [][(/\ TokenizeStep
           /\ c[offset + 1] = "2"
           /\ (offset + 1 = Len(c) \/ c[offset + 2] # ">")) =>
          (\/ /\ Last(tokens').kind = "string"
              /\ Last(tokens').s[1] = "2"
              /\ Last(tokens').s = WordText(c, offset, "none")
           \/ /\ OpenQuote(c, offset, "none") # "none"
              /\ Last(tokens') = MissingQuote)]_vars

\* C17 as stated: at a token start 2>&1 gives redirect_error_to_output and
\* consumes 4 characters exactly when a separator or the end of input
\* follows it; any other 2> gives redirect_error(target), the target being
\* the next word after optional whitespace, or error("No error file
\* specified.") when that word is empty; a 2 not followed by > starts an
\* ordinary word (SpecTwo).  Refuted: a target word with an unterminated
\* quote gives neither of the two.
C17_DispatchOnTwo ==
    /\ DispatchOnTwo
    /\ [][(TokenizeStep /\ ErrorRedirectAt(c, offset)) =>
          (\/ Last(tokens').kind = "redirect_error"
           \/ Last(tokens') = error("No error file specified."))]_vars

\* C17 amended: as stated, and a target word that runs into an unterminated
\* quoted run gives error("Could not parse file name for error
\* redirection.") (SpecTwo).
C17_DispatchOnTwoOrTargetError ==
    /\ DispatchOnTwo
    /\ [][(TokenizeStep /\ ErrorRedirectAt(c, offset)) =>
          (\/ Last(tokens').kind = "redirect_error"
           \/ Last(tokens') = error("No error file specified.")
           \/ /\ OpenQuote(c, TargetStart(c, offset), "none") # "none"
              /\ Last(tokens') =
                     error("Could not parse file name for error redirection."))]_vars

C17_Witness ==
    /\ tpc = "done"
    /\ c = <<"2", ">", "&", "1", " ", "2">>
    /\ tokens = <<redirect_error_to_output, string(<<"2">>)>>

\* finish_parse is about to fold a command or subshell part into the
\* running node with append_to_cl.
AboutToAppend ==
    /\ pc = "finish"
    /\ fold.idx < Len(fold.parts)
    /\ fold.parts[fold.idx + 1].kind \in {"cmd", "subshell"}
    /\ fold.cmd_allowed

\* C18 as stated: whenever finish_parse folds a command or subshell part
\* into the running node, the running node is a pipeline, sequence, and or
\* or node, never a singleton and never a background (SpecFold).  Refuted:
\* after a background separator the running node is a background node.
C18_RunningNodeVariadic ==
    AboutToAppend => fold.cur_cl.kind \in {"pipeline", "sequence", "and", "or"}

\* C18 amended: the running node is then a pipeline, sequence, and, or or
\* background node, a background node exactly when the part follows a
\* background separator, and never a singleton (SpecFold).
C18_RunningNodeWrapped ==
    AboutToAppend =>
        /\ fold.cur_cl.kind \in {"pipeline", "sequence", "and", "or", "background"}
        /\ fold.parts[fold.idx].kind = "sep"
        /\ fold.cur_cl.kind = "background" <=> fold.parts[fold.idx].t = background

C18_Witness ==
    /\ AboutToAppend
    /\ ptokens = <<Word, or, Word, background, WordB>>
    /\ fold.cur_cl = cl_background(cl_or(<<Single, Single>>))
    /\ fold.parts[fold.idx + 1] = cmd(command(<<<<"b">>>>, stdin, stdout, stderr))

Operators == {"pipe", "and", "or", "sequence"}

SeparatorExpected == error("Found a separator where a command was expected.")

\* ts holds no subshell: all its tokens belong to one nesting level.
OneLevel(ts) ==
    \A i \in 1..Len(ts) : ts[i].kind \notin {"open_subshell", "close_subshell"}

\* Token i + 1 of ts is a separator that directly follows a pipe, and, or
\* or sequence separator.
SeparatorAfterOperator(ts, i) ==
    /\ ts[i].kind \in Operators
    /\ ts[i + 1].kind \in Separators

\* C19 as stated, for the tokens of one level: a separator that directly
\* follows a pipe, and, or, sequence separator makes parse return
\* "Found a separator where a command was expected.", and the error is
\* returned for no other separator, one after a background separator
\* included (SpecFold).  Refuted: when the level starts with a separator
\* parse returns "No initial command." before the fold looks further.
C19_ConsecutiveSeparators ==
    (pc = "done" /\ OneLevel(ptokens)) =>
        ((\E i \in 1..(Len(ptokens) - 1) : SeparatorAfterOperator(ptokens, i))
             <=> result = SeparatorExpected)

\* C19 amended: the same for a level whose first part is a command or a
\* subshell; and in every level, nested ones and subshell parts included,
\* the fold stops with that error at a separator part exactly when the part
\* before it is a pipe, and, or, sequence separator, and otherwise accepts
\* the separator and moves on (SpecFold).
C19_ConsecutiveSeparatorsAfterCommand ==
    /\ []((pc = "done" /\ OneLevel(ptokens) /\ ptokens # <<>>
              /\ ptokens[1].kind \notin Separators) =>
            ((\E i \in 1..(Len(ptokens) - 1) : SeparatorAfterOperator(ptokens, i))
                 <=> result = SeparatorExpected))
    /\ [](FoldAt({"sep"}) =>
            (fold.cmd_required <=>
                 (/\ fold.parts[fold.idx].kind = "sep"
                  /\ fold.parts[fold.idx].t.kind \in Operators)))
    /\ [][FoldSep =>
            IF fold.cmd_required
            THEN pc' = "done" /\ result' = SeparatorExpected
            ELSE /\ pc' = "finish"
                 /\ fold'.idx = fold.idx + 1
                 /\ fold'.cur_cl = fold_separator(fold.cur_cl, fold.parts[fold.idx + 1].t)]_vars

C19_Witness ==
    /\ pc = "done"
    /\ ptokens = <<Word, background, sequence, WordB>>
    /\ result = parsed(cl_sequence(<<cl_background(Single), SingleB>>))

MissingCommand == error("Missing command at end of line.")

\* The last part of the level being folded is a pipe, and, or, sequence
\* separator.
EndsWithOperator ==
    /\ Last(fold.parts).kind = "sep"
    /\ Last(fold.parts).t.kind \in Operators

\* C20: end of a level (SpecFold): when finish_parse gets through all the
\* parts of a level, the level's result is "Missing command at end of
\* line." if its last part is a pipe, and, or, sequence separator and
\* otherwise the running node, handed to parse's caller at level 0 and to
\* the enclosing level as its newest subshell part at level > 0; the error
\* is returned from nowhere else; and when the last part is a background
\* separator the running node is Background(N), N being what the parts
\* before that separator fold to.
C20_EndOfLevel ==
    /\ [][FoldReturn =>
          IF EndsWithOperator
          THEN pc' = "done" /\ result' = MissingCommand
          ELSE /\ IF Len(stack) = 1
                  THEN pc' = "done" /\ result' = parsed(fold.cur_cl)
                  ELSE /\ pc' = "scan"
                       /\ Len(stack') = Len(stack) - 1
                       /\ Last(Last(stack').parts) = subshell(fold.cur_cl)
               /\ Last(fold.parts) = sep(background) =>
                      parsed(fold.cur_cl) =
                          parsed(cl_background(
                              finish_parse(SubSeq(fold.parts, 1,
                                                  Len(fold.parts) - 1)).cl))]_vars
    /\ [][(pc # "done" /\ pc' = "done" /\ result' = MissingCommand) =>
          (FoldReturn /\ EndsWithOperator)]_vars
    /\ []((pc = "done" /\ ptokens = <<Word, and, WordB, and>>) =>
          result = MissingCommand)

C20_Witness ==
    /\ pc = "done"
    /\ ptokens = <<Word, pipe, WordB, background>>
    /\ result = parsed(cl_background(pipeline(<<Single, SingleB>>)))

\* C21: on a non-empty token sequence, every pipeline, sequence, and, or
\* node of a parsed result holds at least two children: a separator that
\* wraps the running node into a one-element node requires a command, which
\* is appended, or the parse ends in an error (SpecParse).
C21_AtLeastTwoChildren ==
    (pc = "done" /\ result.kind = "parsed" /\ ptokens # <<>>) =>
        MinChildren(result.cl, 2)

C21_Witness ==
    /\ pc = "done"
    /\ ptokens = <<Word, background, sequence, Word>>
    /\ result = parsed(cl_sequence(<<cl_background(Single), Single>>))

\* The place of the first open_subshell and of the last close_subshell of
\* ts, and the runs of tokens inside and after them.
OpenAt(ts) == CHOOSE i \in 1..Len(ts) :
                  ts[i] = open_subshell /\ \A j \in 1..(i - 1) : ts[j] # open_subshell
CloseAt(ts) == CHOOSE i \in 1..Len(ts) :
                   ts[i] = close_subshell /\ \A j \in (i + 1)..Len(ts) : ts[j] # close_subshell
Inside(ts) == SubSeq(ts, OpenAt(ts) + 1, CloseAt(ts) - 1)
After(ts) == SubSeq(ts, CloseAt(ts) + 1, Len(ts))

\* ts is ( X ) R with R starting with a separator.
LeadingSubshell(ts) ==
    /\ ts # <<>>
    /\ ts[1] = open_subshell
    /\ \E i \in 1..Len(ts) : ts[i] = close_subshell
    /\ Balanced(Inside(ts))
    /\ After(ts) # <<>>
    /\ After(ts)[1].kind \in Separators

\* C22: a subshell that is the first part of a level is transparent: when
\* parse of ( X ) R, R starting with a separator, returns parsed, it returns
\* what parse of X R returns, so ( a && b ) && a is the flat
\* And([a, b, a]); a subshell part folded at a later position becomes one
\* child of the running node, so a | ( a | b ) is
\* Pipeline([a, Pipeline([a, b])]) (SpecSubshell).
C22_LeadingSubshellTransparent ==
    /\ []((pc = "done" /\ result.kind = "parsed" /\ LeadingSubshell(ptokens)) =>
            result = parse(Inside(ptokens) \o After(ptokens)))
    /\ [][(/\ FoldPart
           /\ fold.cmd_allowed
           /\ fold.parts[fold.idx + 1].kind = "subshell") =>
          (/\ pc' = "finish"
           /\ Last(fold'.cur_cl.args) = fold.parts[fold.idx + 1].cl
           /\ Len(fold'.cur_cl.args) =
                  IF fold.cur_cl.kind = "background" THEN 2
                  ELSE Len(fold.cur_cl.args) + 1)]_vars
    /\ []((pc = "done"
              /\ ptokens = <<Word, pipe, open_subshell, Word, pipe, WordB,
                             close_subshell>>) =>
            result = parsed(pipeline(<<Single, pipeline(<<Single, SingleB>>)>>)))

C22_Witness ==
    /\ pc = "done"
    /\ ptokens = <<open_subshell, Word, and, WordB, close_subshell, and, Word>>
    /\ result = parsed(cl_and(<<Single, SingleB, Single>>))

====
